---- MODULE Spec2Model ----
(***************************************************************************)
(* A model of the Document AI layout parser (src/parser.py).               *)
(*                                                                         *)
(* A model of the extractor (src/extract_llm_dataset.py) comes with it.    *)
(*                                                                         *)
(* Six specifications share the definitions below:                         *)
(*   SpecElement  one element of a response is flattened by one of the     *)
(*                per-element functions (_extract_text_element_info,       *)
(*                _extract_cell_info, _extract_form_field_info), or one    *)
(*                table by _extract_table_info;                            *)
(*   SpecFlatten  one nested response is flattened by                      *)
(*                _extract_layout_info, possibly twice;                    *)
(*   Spec         a batch run: process_all_pdfs over a directory, one      *)
(*                process_pdf per file, the corpus self.dataset, then      *)
(*                save_dataset;                                            *)
(*   SpecCalls    process_all_pdfs called more than once on one parser,    *)
(*                with save_dataset between or after the calls;            *)
(*   SpecMain     main: the imports, the construction of the parser, the   *)
(*                batch run and the save;                                  *)
(*   SpecExtract  runs of the extractor over one dataset file.             *)
(*                                                                         *)
(* Python values are modelled as follows.  A str is a sequence of          *)
(* one-character strings.  A dict is a record; the dict {} is the function *)
(* with empty domain.  A list is a sequence.  An object that is None, or a *)
(* protobuf message with no field set, is the value Absent: both are falsy *)
(* and the code reads nothing from either, except for bounding_poly (see   *)
(* Polys).  A raised exception is a record with the fields exc_type and    *)
(* message that the callers hand upwards until an except clause takes it.  *)
(***************************************************************************)
EXTENDS Integers, Sequences, FiniteSets, TLC

-----------------------------------------------------------------------------
(* Bounds of the model *)

\* longest document text
MaxTextLen == 2
\* most text segments in one text anchor
MaxSegs == 2
\* largest row/column span a source cell states
MaxSpan == 2
\* most pages in one response
MaxPages == 2
\* most elements (of all kinds together) in one response
MaxElems == 2
\* most entries in the PDF directory
MaxFiles == 2
\* most header rows, and most body rows, in one table
MaxRows == 2
\* most cells in one table row
MaxCols == 2
\* most calls of save_dataset on one parser
MaxSaves == 2
\* most documents in the dataset file the extractor reads
MaxDocs == 2
\* most paragraphs in that file, over all its documents
MaxParas == 2
\* most runs of the extractor
MaxRuns == 2
\* most calls of process_all_pdfs on one parser
MaxCalls == 2

-----------------------------------------------------------------------------
(* Python primitives *)

Min2(a, b) == IF a <= b THEN a ELSE b

SetMin(S) == CHOOSE m \in S : \A n \in S : m <= n

SetMax(S) == CHOOSE m \in S : \A n \in S : m >= n

\* s[start:end] for non-negative start, end: out-of-range indices are clamped
Slice(s, start, end) ==
    LET lo == Min2(start, Len(s))
        hi == Min2(end, Len(s))
    IN  IF lo >= hi THEN <<>> ELSE SubSeq(s, lo + 1, hi)

Whitespace == {" "}

\* str.strip(): leading and trailing whitespace removed
Strip(s) ==
    LET keep == {i \in 1..Len(s) : s[i] \notin Whitespace}
    IN  IF keep = {} THEN <<>> ELSE SubSeq(s, SetMin(keep), SetMax(keep))

\* the Python value None where a record field holds a number or a string
None == "None"

\* an object that is None or an unset message: falsy
Absent == [absent |-> TRUE]

Truthy(obj) == obj # Absent

\* hasattr(obj, name)
hasattr(obj, name) == name \in DOMAIN obj

\* getattr(obj, name, default)
getattr(obj, name, default) == IF name \in DOMAIN obj THEN obj[name] ELSE default

\* the dict {}
EmptyDict == [k \in {} |-> 0]

\* a raised exception, as a value handed to the caller
Raise(type, msg) == [exc_type |-> type, message |-> msg]

IsExc(v) == "exc_type" \in DOMAIN v

-----------------------------------------------------------------------------
(* The response of the remote service: the nested layout result           *)

\* The document text is a prefix of this buffer; a blank leads and follows
\* the letters so that slices begin and end with whitespace.
DocumentChar(i) == IF i % 3 = 1 THEN " " ELSE IF i % 3 = 2 THEN "a" ELSE "b"

DocumentText(n) == [i \in 1..n |-> DocumentChar(i)]

DocTexts == {DocumentText(n) : n \in 0..MaxTextLen}

\* A text segment.  start_index and end_index are int64 fields without
\* presence: an offset the service did not specify reads as 0.  The fields
\* start_given / end_given are not visible to the code: they record whether
\* the service specified the offset.
Segments ==
    {s \in [start_index : 0..MaxTextLen, end_index : 0..MaxTextLen,
            start_given : BOOLEAN, end_given : BOOLEAN] :
        /\ (~s.start_given => s.start_index = 0)
        /\ (~s.end_given => s.end_index = 0)}

SeqsUpTo(S, n) == UNION {[1..k -> S] : k \in 0..n}

\* a segment with neither offset specified: the whole text
UnspecifiedSegment ==
    [start_index |-> 0, end_index |-> 0, start_given |-> FALSE, end_given |-> FALSE]

GivenSegment(start, end) ==
    [start_index |-> start, end_index |-> end, start_given |-> TRUE, end_given |-> TRUE]

FewSegments == {UnspecifiedSegment, GivenSegment(0, 1), GivenSegment(1, 2)}

\* the segment lists of an anchor: up to MaxSegs segments, at most one of
\* them outside FewSegments
SegmentLists ==
    {ss \in SeqsUpTo(Segments, MaxSegs) :
        Cardinality({i \in 1..Len(ss) : ss[i] \notin FewSegments}) <= 1}

\* element.layout.text_anchor: Absent, or an anchor with its segments
Anchors == {Absent} \cup {[text_segments |-> ss] : ss \in SegmentLists}

\* layout.bounding_poly.  A message read from the service always has the
\* attribute (no vertices when the geometry is missing); a duck-typed
\* response may hold None there instead.
Polys ==
    { Absent,
      [vertices |-> <<>>],
      [vertices |-> <<[x |-> 0, y |-> 0], [x |-> 1, y |-> 0]>>] }

\* layout.confidence is a float field without presence: a score the service
\* did not give reads as 0.0.  confidence_given is not visible to the code.
\* A duck-typed layout may lack the attribute altogether (LayoutNoConfidence).
Confidences ==
    { [confidence |-> "0.0", confidence_given |-> FALSE],
      [confidence |-> "0.0", confidence_given |-> TRUE],
      [confidence |-> "0.9", confidence_given |-> TRUE] }

Layout(anchor, poly, conf) ==
    [text_anchor |-> anchor, bounding_poly |-> poly,
     confidence |-> conf.confidence, confidence_given |-> conf.confidence_given]

LayoutNoConfidence(anchor, poly) ==
    [text_anchor |-> anchor, bounding_poly |-> poly, confidence_given |-> FALSE]

\* a few anchors, for the elements whose geometry, confidence or span varies
FewAnchors == {Absent, [text_segments |-> <<UnspecifiedSegment>>]}

PlainPoly == [vertices |-> <<[x |-> 0, y |-> 0], [x |-> 1, y |-> 0]>>]

PlainConfidence == [confidence |-> "0.9", confidence_given |-> TRUE]

ElementTypes == {"block", "paragraph", "line", "token"}

\* A block, paragraph, line or token of a page: every anchor with plain
\* geometry, and every geometry and confidence with a few anchors.
TextElements ==
    {[layout |-> Absent]}
    \cup {[layout |-> Layout(a, PlainPoly, PlainConfidence)] : a \in Anchors}
    \cup {[layout |-> Layout(a, p, c)] : a \in FewAnchors, p \in Polys, c \in Confidences}
    \cup {[layout |-> LayoutNoConfidence(a, PlainPoly)] : a \in FewAnchors}

\* cell.row_span / cell.col_span are int32 fields without presence: a span
\* the service omitted reads as 0.  "given" is not visible to the code.
SpanValues ==
    {[v |-> 0, given |-> FALSE]} \cup {[v |-> n, given |-> TRUE] : n \in 1..MaxSpan}

PlainSpan == [v |-> 1, given |-> TRUE]

Cell(layout, rs, cs) ==
    [layout |-> layout, row_span |-> rs.v, col_span |-> cs.v,
     row_span_given |-> rs.given, col_span_given |-> cs.given]

\* a duck-typed cell without the span attributes
CellNoSpans(layout) ==
    [layout |-> layout, row_span_given |-> FALSE, col_span_given |-> FALSE]

FewLayouts == {Absent} \cup {Layout(a, p, PlainConfidence) : a \in FewAnchors, p \in Polys}

Cells ==
    {Cell(Layout(a, PlainPoly, PlainConfidence), PlainSpan, PlainSpan) : a \in Anchors}
    \cup {Cell(l, rs, cs) : l \in FewLayouts, rs \in SpanValues, cs \in SpanValues}
    \cup {CellNoSpans(l) : l \in FewLayouts}

\* field.field_name / field.field_value: Absent or a layout
FormField(name, value) == [field_name |-> name, field_value |-> value]

PlainLayout == Layout([text_segments |-> <<GivenSegment(0, 1)>>], PlainPoly, PlainConfidence)

FormFields ==
    {FormField(Layout(a, PlainPoly, PlainConfidence), l) : a \in Anchors, l \in {Absent, PlainLayout}}
    \cup {FormField(l, Layout(a, PlainPoly, PlainConfidence)) : a \in Anchors, l \in {Absent, PlainLayout}}
    \cup {FormField(l1, l2) : l1 \in FewLayouts, l2 \in FewLayouts}


\* a table: its header rows and body rows, each row a list of cells
Row(cells) == [cells |-> cells]

PlainCell == Cell(PlainLayout, PlainSpan, PlainSpan)

PlainTable == [header_rows |-> <<Row(<<PlainCell>>)>>, body_rows |-> <<Row(<<PlainCell>>)>>]

\* a cell known by its geometry: column and row in its first vertex, its
\* band (0 for header_rows, 1 for body_rows) in the second
GridCell(band, r, c) ==
    Cell(Layout(Absent, [vertices |-> <<[x |-> c, y |-> r], [x |-> band, y |-> band]>>],
                PlainConfidence),
         PlainSpan, PlainSpan)

\* rows of the given widths
GridRows(band, widths) ==
    [r \in 1..Len(widths) |-> Row([c \in 1..widths[r] |-> GridCell(band, r - 1, c - 1)])]

\* every table of up to MaxRows header rows and MaxRows body rows, each row
\* of up to MaxCols cells
Tables ==
    {[header_rows |-> GridRows(0, hw), body_rows |-> GridRows(1, bw)] :
        hw \in SeqsUpTo(0..MaxCols, MaxRows), bw \in SeqsUpTo(0..MaxCols, MaxRows)}

\* a table without header rows, of a body row of two cells and one of one
HeadlessTable == [header_rows |-> <<>>, body_rows |-> GridRows(1, <<2, 1>>)]

PlainElement == [layout |-> PlainLayout]

NoLayoutElement == [layout |-> Absent]

\* a text element with a layout whose bounding_poly is None
NoPolyElement == [layout |-> Layout(Absent, Absent, PlainConfidence)]

\* the elements a page of a structured response is built from, each with
\* the page collection it belongs to
PageElements ==
    {[kind |-> k, value |-> e] :
        k \in {"blocks", "paragraphs", "lines", "tokens"},
        e \in {PlainElement, NoLayoutElement}}
    \cup {[kind |-> "paragraphs", value |-> NoPolyElement]}
    \cup {[kind |-> "tables", value |-> t] : t \in {PlainTable, HeadlessTable}}
    \cup {[kind |-> "form_fields", value |-> f] :
            f \in {FormField(Absent, Absent), FormField(PlainLayout, PlainLayout)}}

\* the elements of collection kind on page i, in the order they were placed
PlacedOn(placements, i, kind) ==
    LET Here(pl) == pl[1] = i /\ pl[2].kind = kind
        chosen == SelectSeq(placements, Here)
    IN  [j \in 1..Len(chosen) |-> chosen[j][2].value]

PlainDimension == [width |-> 612, height |-> 792]

PageOf(placements, i) ==
    [dimension |-> PlainDimension,
     blocks |-> PlacedOn(placements, i, "blocks"),
     paragraphs |-> PlacedOn(placements, i, "paragraphs"),
     lines |-> PlacedOn(placements, i, "lines"),
     tokens |-> PlacedOn(placements, i, "tokens"),
     tables |-> PlacedOn(placements, i, "tables"),
     form_fields |-> PlacedOn(placements, i, "form_fields")]

\* result.document: the full text and the pages
DocumentOf(text, npages, placements) ==
    [text |-> text, pages |-> [i \in 1..npages |-> PageOf(placements, i)]]

\* the ways to place up to MaxElems elements on np pages
Placements(np) == SeqsUpTo((1..np) \X PageElements, MaxElems)

\* doc is a response of up to MaxPages pages holding up to MaxElems elements
IsDocument(doc) ==
    \E np \in 0..MaxPages : \E pl \in Placements(np) :
        doc = DocumentOf(DocumentText(MaxTextLen), np, pl)

\* str(pdf_file): a path is the sequence of its components
Paths == {<<"PDFs", "a.pdf">>, <<"PDFs", "b.pdf">>}

\* datetime.now().isoformat(): the wall clock, read at each call
Instants == {"2024-01-01T00:00:00", "2024-01-01T00:00:01"}

\* the size above which process_pdf warns: 20 * 1024 * 1024 bytes
SyncLimit == 20 * 1024 * 1024

\* len(pdf_content) of a file that can be read
FileSizes == {0, 1, SyncLimit, SyncLimit + 1}

FileName(i) == IF i = 1 THEN "a" ELSE IF i = 2 THEN "b" ELSE IF i = 3 THEN "c" ELSE "d"

\* The entries of the PDF directory in the order the directory lists them.
\* An entry that is missing is listed but cannot be opened (a dangling link,
\* a file removed after the listing).  Entries other than *.pdf are readable.
IsDirectory(dir) ==
    /\ Len(dir) <= MaxFiles
    /\ \A i \in 1..Len(dir) :
          /\ dir[i].name = FileName(i)
          /\ dir[i].suffix \in {".pdf", ".txt"}
          /\ dir[i].exists \in BOOLEAN
          /\ dir[i].size \in FileSizes
          /\ (~dir[i].exists => dir[i].size = 0)
          /\ (dir[i].suffix = ".txt" => dir[i].exists /\ dir[i].size = 1)

DirectoryEntries ==
    [name : {FileName(i) : i \in 1..MaxFiles}, suffix : {".pdf", ".txt"},
     exists : BOOLEAN, size : FileSizes]

PdfDirectory == "PDFs"

\* str(pdf_file) for an entry of the directory
PathOf(entry) == <<PdfDirectory, entry.name, entry.suffix>>

\* the errors the remote call is seen to raise
RemoteErrors ==
    { [exc_type |-> "PermissionDenied", message |-> <<"403 Permission denied on resource">>],
      [exc_type |-> "DeadlineExceeded", message |-> <<"504 Deadline Exceeded">>] }

\* the responses the remote call returns in a batch run: no page; a page with
\* a block and a table; a page with a block without layout; a page whose
\* block flattens and whose paragraph has a layout without bounding_poly
BatchDocuments ==
    { DocumentOf(DocumentText(MaxTextLen), 0, <<>>),
      DocumentOf(DocumentText(MaxTextLen), 1,
                 << <<1, [kind |-> "blocks", value |-> PlainElement]>>,
                    <<1, [kind |-> "tables", value |-> PlainTable]>> >>),
      DocumentOf(DocumentText(MaxTextLen), 1,
                 << <<1, [kind |-> "blocks", value |-> NoLayoutElement]>> >>),
      DocumentOf(DocumentText(MaxTextLen), 1,
                 << <<1, [kind |-> "blocks", value |-> PlainElement]>>,
                    <<1, [kind |-> "paragraphs", value |-> NoPolyElement]>> >>) }

\* what a run may meet: the responses of the remote call and the instants
\* of the clock
WholeWorld == [responses |-> RemoteErrors \cup BatchDocuments, instants |-> Instants]

\* a run whose requests time out or return a page with one block, within
\* one tick of the clock
SmallWorld ==
    [responses |-> {[exc_type |-> "DeadlineExceeded", message |-> <<"504 Deadline Exceeded">>],
                    DocumentOf(DocumentText(MaxTextLen), 1,
                               << <<1, [kind |-> "blocks", value |-> PlainElement]>> >>)},
     instants |-> {"2024-01-01T00:00:00"}]

-----------------------------------------------------------------------------
(* The flattening pipeline, per element *)

\* One pass of the segment loop:
\*   start_idx = int(segment.start_index) if segment.start_index else 0
\*   end_idx = int(segment.end_index) if segment.end_index else len(document_text)
\*   ... document_text[start_idx:end_idx]
segment_text(segment, document_text) ==
    LET start_idx == IF segment.start_index # 0 THEN segment.start_index ELSE 0
        end_idx == IF segment.end_index # 0 THEN segment.end_index
                   ELSE Len(document_text)
    IN  Slice(document_text, start_idx, end_idx)

\* extracted_text = ""; for segment in text_segments: extracted_text += ...
RECURSIVE concat_segments(_, _)
concat_segments(text_segments, document_text) ==
    IF text_segments = <<>> THEN <<>>
    ELSE segment_text(Head(text_segments), document_text)
         \o concat_segments(Tail(text_segments), document_text)

\* [(vertex.x, vertex.y) for vertex in bbox.vertices]
vertex_pairs(vertices) == [i \in 1..Len(vertices) |-> <<vertices[i].x, vertices[i].y>>]

\* a bug that would read the geometry of an absent layout
no_layout_raises ==
    [exc_type |-> "AttributeError",
     message |-> <<"'NoneType' object has no attribute 'bounding_poly'">>]

\* if not element.layout: return {}
no_layout_record == EmptyDict

\* a bug that would keep the surrounding whitespace
unstripped_text(extracted_text) == extracted_text

\* extracted_text.strip()
stripped_text(extracted_text) == Strip(extracted_text)

_extract_text_element_info(element, document_text, page_num, element_type, element_num) ==
    IF ~Truthy(element.layout) THEN no_layout_record
    ELSE
      LET bbox == element.layout.bounding_poly
      IN  IF bbox = Absent
          THEN Raise("AttributeError", <<"'NoneType' object has no attribute 'vertices'">>)
          ELSE
            LET vertices == IF bbox.vertices # <<>> THEN vertex_pairs(bbox.vertices) ELSE <<>>
                text_segments == IF Truthy(element.layout.text_anchor)
                                 THEN element.layout.text_anchor.text_segments
                                 ELSE <<>>
                extracted_text == concat_segments(text_segments, document_text)
            IN  [page_number |-> page_num,
                 element_type |-> element_type,
                 element_number |-> element_num,
                 text |-> stripped_text(extracted_text),
                 text_length |-> Len(stripped_text(extracted_text)),
                 bounding_box |-> vertices,
                 confidence |-> getattr(element.layout, "confidence", None)]

\* cell.row_span if hasattr(cell, 'row_span') else 1  (and col_span alike)
cell_span(cell, name) == IF hasattr(cell, name) THEN cell[name] ELSE 1

_extract_cell_info(cell, document_text, page_num, table_num, row_idx, cell_idx, cell_type) ==
    LET text_segments == IF Truthy(cell.layout) /\ Truthy(cell.layout.text_anchor)
                         THEN cell.layout.text_anchor.text_segments
                         ELSE <<>>
        extracted_text == concat_segments(text_segments, document_text)
        bbox == IF Truthy(cell.layout) THEN cell.layout.bounding_poly ELSE Absent
        vertices == IF Truthy(bbox) /\ bbox.vertices # <<>>
                    THEN vertex_pairs(bbox.vertices) ELSE <<>>
    IN  [page_number |-> page_num,
         table_number |-> table_num,
         row_index |-> row_idx,
         cell_index |-> cell_idx,
         cell_type |-> cell_type,
         text |-> stripped_text(extracted_text),
         text_length |-> Len(stripped_text(extracted_text)),
         bounding_box |-> vertices,
         row_span |-> cell_span(cell, "row_span"),
         col_span |-> cell_span(cell, "col_span")]

\* the text of field.field_name / field.field_value before the final strip
field_text(layout, document_text) ==
    IF Truthy(layout) /\ Truthy(layout.text_anchor)
    THEN concat_segments(layout.text_anchor.text_segments, document_text)
    ELSE <<>>

_extract_form_field_info(field, document_text, page_num, field_num) ==
    [page_number |-> page_num,
     field_number |-> field_num,
     field_name |-> stripped_text(field_text(field.field_name, document_text)),
     field_value |-> stripped_text(field_text(field.field_value, document_text))]

-----------------------------------------------------------------------------
(* The flattening pipeline, per table and per document *)

RECURSIVE Flatten(_)
Flatten(seqs) == IF seqs = <<>> THEN <<>> ELSE Head(seqs) \o Flatten(Tail(seqs))

\* for row_idx, row in enumerate(rows): for cell_idx, cell in enumerate(row.cells)
row_cells(rows, document_text, page_num, table_num, cell_type) ==
    Flatten([r \in 1..Len(rows) |->
        [c \in 1..Len(rows[r].cells) |->
            _extract_cell_info(rows[r].cells[c], document_text, page_num, table_num,
                               r - 1, c - 1, cell_type)]])

\* a bug that would flatten the body rows before the header rows
_extract_table_info_body_first(table, document_text, page_num, table_num) ==
    [page_number |-> page_num,
     table_number |-> table_num,
     rows_count |-> Len(table.body_rows),
     header_rows_count |-> Len(table.header_rows),
     cells |-> row_cells(table.body_rows, document_text, page_num, table_num, "body")
               \o row_cells(table.header_rows, document_text, page_num, table_num, "header")]

\* a bug that would count the header rows among the rows
_extract_table_info_counting_all_rows(table, document_text, page_num, table_num) ==
    [page_number |-> page_num,
     table_number |-> table_num,
     rows_count |-> Len(table.header_rows) + Len(table.body_rows),
     header_rows_count |-> Len(table.header_rows),
     cells |-> row_cells(table.header_rows, document_text, page_num, table_num, "header")
               \o row_cells(table.body_rows, document_text, page_num, table_num, "body")]

_extract_table_info(table, document_text, page_num, table_num) ==
    [page_number |-> page_num,
     table_number |-> table_num,
     rows_count |-> Len(table.body_rows),
     header_rows_count |-> Len(table.header_rows),
     cells |-> row_cells(table.header_rows, document_text, page_num, table_num, "header")
               \o row_cells(table.body_rows, document_text, page_num, table_num, "body")]

\* os.path.basename(pdf_path): the path without its directory
basename(path) == Tail(path)

\* the page summary with the counts of the page's collections
\* a bug that would number the pages from 0
page_info_zero_based(page, page_num) ==
    [page_number |-> page_num,
     width |-> page.dimension.width,
     height |-> page.dimension.height,
     blocks_count |-> Len(page.blocks),
     paragraphs_count |-> Len(page.paragraphs),
     lines_count |-> Len(page.lines),
     tokens_count |-> Len(page.tokens),
     tables_count |-> Len(page.tables),
     form_fields_count |-> Len(page.form_fields)]

page_info(page, page_num) ==
    [page_number |-> page_num + 1,
     width |-> page.dimension.width,
     height |-> page.dimension.height,
     blocks_count |-> Len(page.blocks),
     paragraphs_count |-> Len(page.paragraphs),
     lines_count |-> Len(page.lines),
     tokens_count |-> Len(page.tokens),
     tables_count |-> Len(page.tables),
     form_fields_count |-> Len(page.form_fields)]

\* a bug that would append only the non-empty records
page_text_elements_skipping_empty(page, document_text, page_num, kind, element_type) ==
    SelectSeq([j \in 1..Len(page[kind]) |->
                  _extract_text_element_info(page[kind][j], document_text, page_num + 1,
                                             element_type, j - 1)],
              LAMBDA r : r # EmptyDict)

\* one of the four text-element loops of a page: the records appended
page_text_elements(page, document_text, page_num, kind, element_type) ==
    [j \in 1..Len(page[kind]) |->
        _extract_text_element_info(page[kind][j], document_text, page_num + 1,
                                   element_type, j - 1)]

page_tables(page, document_text, page_num) ==
    [j \in 1..Len(page.tables) |->
        _extract_table_info(page.tables[j], document_text, page_num + 1, j - 1)]

page_form_fields(page, document_text, page_num) ==
    [j \in 1..Len(page.form_fields) |->
        _extract_form_field_info(page.form_fields[j], document_text, page_num + 1, j - 1)]

\* layout_data[kind] once every page is processed: the page loop appends
\* each page's records in page order
all_text_elements(document, kind, element_type) ==
    Flatten([i \in 1..Len(document.pages) |->
        page_text_elements(document.pages[i], document.text, i - 1, kind, element_type)])

\* what the calls of _extract_text_element_info return, in the order the
\* page loop makes them; the first exception among them ends the loop
text_element_calls(document) ==
    Flatten([i \in 1..Len(document.pages) |->
        page_text_elements(document.pages[i], document.text, i - 1, "blocks", "block")
        \o page_text_elements(document.pages[i], document.text, i - 1, "paragraphs", "paragraph")
        \o page_text_elements(document.pages[i], document.text, i - 1, "lines", "line")
        \o page_text_elements(document.pages[i], document.text, i - 1, "tokens", "token")])

\* a bug that would derive the file name from the time of the call
layout_data_stamped_name(document, pdf_path, now) ==
    [file_path |-> pdf_path,
     file_name |-> now,
     processing_timestamp |-> now,
     status |-> "success",
     document_info |-> [total_pages |-> Len(document.pages),
                        text_length |-> Len(document.text)],
     pages |-> <<>>, blocks |-> <<>>, paragraphs |-> <<>>, lines |-> <<>>,
     tokens |-> <<>>, tables |-> <<>>, form_fields |-> <<>>]

\* layout_data as first built, its lists empty
layout_data_init(document, pdf_path, now) ==
    [file_path |-> pdf_path,
     file_name |-> basename(pdf_path),
     processing_timestamp |-> now,
     status |-> "success",
     document_info |-> [total_pages |-> Len(document.pages),
                        text_length |-> Len(document.text)],
     pages |-> <<>>, blocks |-> <<>>, paragraphs |-> <<>>, lines |-> <<>>,
     tokens |-> <<>>, tables |-> <<>>, form_fields |-> <<>>]

_extract_layout_info(document, pdf_path, now) ==
    LET calls == text_element_calls(document)
        raised == {k \in 1..Len(calls) : IsExc(calls[k])}
    IN  IF raised # {} THEN calls[SetMin(raised)]
        ELSE
          [layout_data_init(document, pdf_path, now) EXCEPT
           !.pages = [i \in 1..Len(document.pages) |-> page_info(document.pages[i], i - 1)],
           !.blocks = all_text_elements(document, "blocks", "block"),
           !.paragraphs = all_text_elements(document, "paragraphs", "paragraph"),
           !.lines = all_text_elements(document, "lines", "line"),
           !.tokens = all_text_elements(document, "tokens", "token"),
           !.tables = Flatten([i \in 1..Len(document.pages) |->
                        page_tables(document.pages[i], document.text, i - 1)]),
           !.form_fields = Flatten([i \in 1..Len(document.pages) |->
                        page_form_fields(document.pages[i], document.text, i - 1)])]

-----------------------------------------------------------------------------
(* process_pdf *)

\* logger.warning / logger.error lines (the log at WARNING level)
LogLine(level, text) == [level |-> level, text |-> text]

\* a bug that would propagate the exception to the caller
except_reraise(pdf_path, e) == e

\* a bug that would return the document shape with empty lists on failure
except_with_empty_lists(pdf_path, e) ==
    [file_path |-> pdf_path, error |-> e.message, status |-> "failed",
     pages |-> <<>>, blocks |-> <<>>, paragraphs |-> <<>>, lines |-> <<>>,
     tokens |-> <<>>, tables |-> <<>>, form_fields |-> <<>>]

\* a bug that would mark the record of a failure with a third status
except_handler_status_error(pdf_path, e) ==
    [file_path |-> pdf_path, error |-> e.message, status |-> "error"]

\* except Exception as e: return {"file_path": ..., "error": str(e), "status": "failed"}
except_handler(pdf_path, e) ==
    [file_path |-> pdf_path, error |-> e.message, status |-> "failed"]

\* a bug that would log the message without the error type
error_log_without_type(pdf_path, e) ==
    <<LogLine("ERROR", <<"Error processing ">> \o pdf_path \o <<": ">> \o e.message)>>

\* the two logger.error lines of the except clause
error_log(pdf_path, e) ==
    <<LogLine("ERROR", <<"Error processing ">> \o pdf_path \o <<": ">> \o e.message),
      LogLine("ERROR", <<"Error type: ", e.exc_type>>)>>

\* a bug that would turn away a file above the synchronous limit
local_failure_rejects_large(entry, pdf_path) ==
    IF ~entry.exists
    THEN Raise("FileNotFoundError", <<"PDF file not found: ">> \o pdf_path)
    ELSE IF entry.size = 0
    THEN Raise("ValueError", <<"PDF file is empty: ">> \o pdf_path)
    ELSE IF entry.size > SyncLimit
    THEN Raise("ValueError", <<"PDF file is too large: ">> \o pdf_path)
    ELSE Absent

\* a bug that would send an empty file to the service
local_failure_submits_empty(entry, pdf_path) ==
    IF ~entry.exists
    THEN Raise("FileNotFoundError", <<"PDF file not found: ">> \o pdf_path)
    ELSE Absent

\* the part of the try block before the remote call: the exception raised
\* there, or Absent when the request is to be sent
local_failure(entry, pdf_path) ==
    IF ~entry.exists
    THEN Raise("FileNotFoundError", <<"PDF file not found: ">> \o pdf_path)
    ELSE IF entry.size = 0
    THEN Raise("ValueError", <<"PDF file is empty: ">> \o pdf_path)
    ELSE Absent

\* logger.warning of a file above the synchronous limit
size_warning(entry) ==
    IF entry.size > SyncLimit
    THEN <<LogLine("WARNING", <<"File size exceeds 20MB limit for synchronous processing">>)>>
    ELSE <<>>

\* logger.warning of a response without pages
zero_pages_warning(document, pdf_path) ==
    IF Len(document.pages) = 0
    THEN <<LogLine("WARNING", <<"Document AI returned 0 pages for ">> \o pdf_path)>>
    ELSE <<>>

\* the part of the try block after the remote call: response is the
\* exception the call raised or result.document
after_remote_call(response, pdf_path, now) ==
    IF IsExc(response) THEN response
    ELSE _extract_layout_info(response, pdf_path, now)

\* what process_pdf returns given what its try block came to
process_pdf_return(pdf_path, outcome) ==
    IF IsExc(outcome) THEN except_handler(pdf_path, outcome) ELSE outcome

\* what process_pdf logs at the end of the try block or in the except clause
process_pdf_log(pdf_path, outcome) ==
    IF IsExc(outcome) THEN error_log(pdf_path, outcome) ELSE <<>>

\* a bug that would put the new record at the head of the corpus
dataset_insert(dataset, layout_info) == <<layout_info>> \o dataset

\* self.dataset.append(layout_info)
dataset_append(dataset, layout_info) == Append(dataset, layout_info)

\* list(Path(pdf_directory).glob("*.pdf")): the paths of the *.pdf entries
glob_pdf(dir) ==
    LET found == SelectSeq(dir, LAMBDA entry : entry.suffix = ".pdf")
    IN  [i \in 1..Len(found) |-> PathOf(found[i])]

\* the directory entry a path names
EntryAt(dir, pdf_path) ==
    CHOOSE entry \in {dir[i] : i \in 1..Len(dir)} : PathOf(entry) = pdf_path

-----------------------------------------------------------------------------
(* save_dataset *)

\* sum(...) of a list of numbers
RECURSIVE sum(_)
sum(numbers) == IF numbers = <<>> THEN 0 ELSE Head(numbers) + sum(Tail(numbers))

\* a bug that would take every document, whatever its status
with_any_status(dataset, status) == dataset

\* [d for d in self.dataset if d.get("status") == status]
with_status(dataset, status) ==
    SelectSeq(dataset, LAMBDA d : getattr(d, "status", None) = status)

\* a number of the summary, as an exact fraction: an int n is n/1
Number(n) == [num |-> n, den |-> 1]

\* a / b, the float quotient, kept exact
true_div(a, b) == [num |-> a, den |-> b]

\* a bug that would divide without looking at the divisor
average_pages_unguarded(total_pages, successful_documents) ==
    IF successful_documents = 0
    THEN Raise("ZeroDivisionError", <<"division by zero">>)
    ELSE true_div(total_pages, successful_documents)

\* "average_pages_per_document": 0, replaced by the quotient
\* if summary["successful_documents"] > 0
average_pages(total_pages, successful_documents) ==
    IF successful_documents > 0
    THEN true_div(total_pages, successful_documents)
    ELSE Number(0)

\* d.get("document_info", {}).get(name, 0)
document_info_of(d, name) == getattr(getattr(d, "document_info", EmptyDict), name, 0)

\* len(d.get(kind, []))
len_of(d, kind) == Len(getattr(d, kind, <<>>))

\* the summary dict that _create_summary_statistics writes
_create_summary_statistics(dataset) ==
    LET docs == with_status(dataset, "success")
        total(kind) == sum([i \in 1..Len(docs) |-> len_of(docs[i], kind)])
        successful_documents == Len(with_status(dataset, "success"))
        total_pages == sum([i \in 1..Len(docs) |-> document_info_of(docs[i], "total_pages")])
    IN  [total_documents |-> Len(dataset),
         successful_documents |-> successful_documents,
         failed_documents |-> Len(with_status(dataset, "failed")),
         total_pages |-> total_pages,
         average_pages_per_document |-> average_pages(total_pages, successful_documents),
         total_blocks |-> total("blocks"),
         total_paragraphs |-> total("paragraphs"),
         total_lines |-> total("lines"),
         total_tokens |-> total("tokens"),
         total_tables |-> total("tables"),
         total_form_fields |-> total("form_fields")]

\* doc_row of _export_to_csv
doc_row(doc) ==
    [file_name |-> getattr(doc, "file_name", <<>>),
     file_path |-> getattr(doc, "file_path", <<>>),
     total_pages |-> document_info_of(doc, "total_pages"),
     text_length |-> document_info_of(doc, "text_length"),
     blocks_count |-> len_of(doc, "blocks"),
     paragraphs_count |-> len_of(doc, "paragraphs"),
     lines_count |-> len_of(doc, "lines"),
     tokens_count |-> len_of(doc, "tokens"),
     tables_count |-> len_of(doc, "tables"),
     form_fields_count |-> len_of(doc, "form_fields")]

\* block["file_name"] = doc.get("file_name", ""): the key is set in the
\* child record itself, which is the dict held by self.dataset
set_file_name(child, doc) ==
    [k \in DOMAIN child \cup {"file_name"} |->
        IF k = "file_name" THEN getattr(doc, "file_name", <<>>) ELSE child[k]]

\* doc.get(kind, []) after the loop that names each child of that kind
named_children(doc, kind) ==
    LET children == getattr(doc, kind, <<>>)
    IN  [i \in 1..Len(children) |-> set_file_name(children[i], doc)]

\* all_blocks / all_tables: the named children of the successful documents
all_children(dataset, kind) ==
    LET docs == with_status(dataset, "success")
    IN  Flatten([i \in 1..Len(docs) |-> named_children(docs[i], kind)])

\* self.dataset once _export_to_csv has run: the blocks and tables of every
\* successful document carry the key file_name
after_export(dataset) ==
    [i \in 1..Len(dataset) |->
        IF getattr(dataset[i], "status", None) = "success"
        THEN [k \in DOMAIN dataset[i] |->
                 IF k \in {"blocks", "tables"} THEN named_children(dataset[i], k)
                 ELSE dataset[i][k]]
        ELSE dataset[i]]

OutputNames ==
    {"layout_dataset.json", "dataset_summary.json",
     "documents_summary.csv", "blocks.csv", "tables.csv"}

\* a name of the output directory with no file behind it
NoFile == [no_file |-> TRUE]

\* json.dump(obj, f): the file holds the value (a tuple is written as a list;
\* both are sequences here)
json_dump(obj) == [json |-> obj]

\* json.load(f)
json_load(file) == file.json

\* pd.DataFrame(rows).to_csv(path, index=False): one line per row under the
\* columns the rows have between them
to_csv(rows) ==
    [columns |-> UNION {DOMAIN rows[i] : i \in 1..Len(rows)}, rows |-> rows]

\* a bug that would write the file also when there is no row
csv_always(rows, old) == to_csv(rows)

\* a CSV file is written only "if rows:"
csv_if_any(rows, old) == IF rows # <<>> THEN to_csv(rows) ELSE old

\* the output directory after save_dataset
save_dataset(dataset, files) ==
    LET docs == with_status(dataset, "success")
    IN  [name \in OutputNames |->
            CASE name = "layout_dataset.json" -> json_dump(dataset)
              [] name = "dataset_summary.json" -> json_dump(_create_summary_statistics(dataset))
              [] name = "documents_summary.csv" ->
                    csv_if_any([i \in 1..Len(docs) |-> doc_row(docs[i])], files[name])
              [] name = "blocks.csv" -> csv_if_any(all_children(dataset, "blocks"), files[name])
              [] name = "tables.csv" -> csv_if_any(all_children(dataset, "tables"), files[name])]

-----------------------------------------------------------------------------
(* main and __init__ *)

\* What main finds when it starts: which configuration module can be
\* imported, whether SERVICE_ACCOUNT_PATH is unset (None), names a file that
\* is present or names a file that is missing, and whether constructing the
\* client works.
Environments ==
    [config : {"config_local", "config", "none"},
     credential : {"unset", "present", "missing"},
     client : {"ok", "raises"}]

SERVICE_ACCOUNT_PATH == "key.json"

\* from config_local import ... / from config import ...: the ImportError
\* of the second import, or Absent when one of the two works
import_config(environment) ==
    IF environment.config = "none"
    THEN Raise("ImportError", <<"No module named 'config'">>)
    ELSE Absent

\* logger.error of main when neither module can be imported
import_log(e) ==
    IF IsExc(e)
    THEN <<LogLine("ERROR", <<"Could not import configuration. Please ensure config.py or config_local.py exists.">>)>>
    ELSE <<>>

\* a bug that would log the failure of the client and go on without it
init_failure_swallowed(environment) ==
    IF environment.credential = "missing"
    THEN Raise("FileNotFoundError", <<"Service account file not found: ", SERVICE_ACCOUNT_PATH>>)
    ELSE Absent

\* DocumentAILayoutParser.__init__: the exception it raises, or Absent
init_failure(environment) ==
    IF environment.credential = "missing"
    THEN Raise("FileNotFoundError", <<"Service account file not found: ", SERVICE_ACCOUNT_PATH>>)
    ELSE IF environment.client = "raises"
    THEN Raise("DefaultCredentialsError", <<"Your default credentials were not found.">>)
    ELSE Absent

\* the logger.error lines of __init__ (client construction only) and of the
\* except clause of main
init_log(environment, e) ==
    IF ~IsExc(e) THEN <<>>
    ELSE (IF environment.credential = "missing" THEN <<>>
          ELSE <<LogLine("ERROR", <<"Failed to initialize Document AI client: ">> \o e.message),
                 LogLine("ERROR", <<"Error type: ", e.exc_type>>)>>)
         \o <<LogLine("ERROR", <<"Error in main execution: ">> \o e.message)>>

-----------------------------------------------------------------------------
(* extract_llm_dataset.py *)

min_length == 50

\* a text of n characters ch
Text(n, ch) == [i \in 1..n |-> ch]

\* The paragraph records of a dataset file: a text above the threshold, a
\* text of min_length characters after a leading blank, a text of
\* min_length - 1 characters between two blanks, and the {} of a paragraph
\* without layout.
ParagraphRecords ==
    { [text |-> Text(min_length + 10, "a")],
      [text |-> <<" ">> \o Text(min_length, "b")],
      [text |-> <<" ">> \o Text(min_length - 1, "c") \o <<" ">>],
      EmptyDict }

\* the shape of a dataset file: for each document -1 when it is a failure
\* record, else the number of its paragraphs
DatasetShapes == SeqsUpTo(-1..MaxParas, MaxDocs)

\* the number of paragraphs of the first n documents of a shape
ParagraphsIn(shape, n) == sum([i \in 1..n |-> IF shape[i] < 0 THEN 0 ELSE shape[i]])

\* json.load of a dataset file of that shape whose paragraphs are, document
\* after document, those of the list
DatasetOf(shape, paragraphs) ==
    [i \in 1..Len(shape) |->
        IF shape[i] < 0 THEN [status |-> "failed"]
        ELSE [status |-> "success",
              paragraphs |-> SubSeq(paragraphs, ParagraphsIn(shape, i - 1) + 1,
                                    ParagraphsIn(shape, i))]]

\* a bug that would take every paragraph, whatever its length
any_length(text) == TRUE

\* a bug that would leave out a paragraph of exactly min_length characters
longer_than_min(text) == Len(text) > min_length

\* if len(text) >= min_length
long_enough(text) == Len(text) >= min_length

\* for paragraph in doc_paragraphs: the {"text": text} of those long enough
doc_selection(doc) ==
    LET doc_paragraphs == getattr(doc, "paragraphs", <<>>)
        texts == [i \in 1..Len(doc_paragraphs) |->
                     Strip(getattr(doc_paragraphs[i], "text", <<>>))]
        chosen == SelectSeq(texts, long_enough)
    IN  [i \in 1..Len(chosen) |-> [text |-> chosen[i]]]

\* for doc in dataset: the list paragraphs at the end of the loop
selection(dataset) ==
    Flatten([i \in 1..Len(dataset) |->
        IF getattr(dataset[i], "status", None) # "success" THEN <<>>
        ELSE doc_selection(dataset[i])])

\* json.dump(paragraph, f, ensure_ascii=False, separators=(',', ':')) and "\n"
jsonl_line(paragraph) == <<"{\"text\":\"">> \o paragraph.text \o <<"\"}", "\n">>

\* the lines of the output file
jsonl(paragraphs) == Flatten([i \in 1..Len(paragraphs) |-> jsonl_line(paragraphs[i])])

\* datetime.now().strftime("%Y%m%d_%H%M%S") in the file name: one name per
\* second of the clock
jsonl_filename(clock) == <<"llm_dataset_", clock, ".jsonl">>

\* the output folder before os.makedirs
NoFolder == [no_folder |-> TRUE]

\* a bug that would open the output file for appending
open_a(folder, name, content) ==
    LET before == IF folder = NoFolder THEN {} ELSE folder.files
        old == {f \in before : f.name = name}
        prefix == IF old = {} THEN <<>> ELSE (CHOOSE f \in old : TRUE).content
    IN  [files |-> (before \ old) \cup {[name |-> name, content |-> prefix \o content]}]

\* os.makedirs(output_folder, exist_ok=True); open(jsonl_path, 'w'): the
\* folder with the file of that name written anew
open_w(folder, name, content) ==
    LET before == IF folder = NoFolder THEN {} ELSE folder.files
    IN  [files |-> {f \in before : f.name # name} \cup {[name |-> name, content |-> content]}]

\* the content of the file of that name
content_of(folder, name) == (CHOOSE f \in folder.files : f.name = name).content

-----------------------------------------------------------------------------
(* State *)

VARIABLES
    el_in,      \* SpecElement: the element handed to a per-element function
    el_out,     \* SpecElement: what the function returned, NotRun before
    fl_doc,     \* SpecFlatten: the response handed to _extract_layout_info
    fl_path,    \* SpecFlatten: the pdf_path handed to it
    fl_first,   \* SpecFlatten: what the first call returned, NotRun before
    fl_second,  \* SpecFlatten: what the second call returned, NotRun before
    directory,  \* Spec: the entries of the PDF directory
    pc,         \* Spec: where process_all_pdfs stands
    pdf_files,  \* Spec: the local pdf_files of process_all_pdfs
    idx,        \* Spec: the position of the loop in pdf_files (1-based)
    dataset,    \* Spec: self.dataset
    log,        \* Spec: the log lines at WARNING level and above
    submitted,  \* Spec: the paths sent to the remote service, in order
    outcomes,   \* Spec: for each record of dataset, what its try block came to
    in_flight,  \* Spec: the paths whose request the service has not answered
    output,     \* Spec: the files of the output directory, by name
    saves,      \* Spec: the calls of save_dataset so far
    env,        \* SpecMain: what main finds (configuration, credentials, client)
    raised,     \* SpecMain: the exception main raised, NotRun before
    ex_dataset, \* SpecExtract: the file output/layout_dataset.json
    ex_folder,  \* SpecExtract: the folder llm_dataset
    ex_clock,   \* SpecExtract: the wall clock, in seconds
    ex_runs,    \* SpecExtract: what each run of the extractor came to
    world,      \* Spec: the responses the service may give, the instants of the clock
    calls_made, \* Spec: the calls of process_all_pdfs so far
    enumerated  \* Spec: the paths those calls listed, call after call

elementVars == <<el_in, el_out>>

flattenVars == <<fl_doc, fl_path, fl_first, fl_second>>

mainVars == <<env, raised, world>>

callVars == <<calls_made, enumerated>>

extractVars == <<ex_dataset, ex_folder, ex_clock, ex_runs>>

batchVars == <<directory, pc, pdf_files, idx, dataset, log, submitted, outcomes,
               in_flight, output, saves, mainVars, callVars>>

vars == <<el_in, el_out, fl_doc, fl_path, fl_first, fl_second,
          directory, pc, pdf_files, idx, dataset, log, submitted, outcomes,
          in_flight, output, saves, env, raised,
          ex_dataset, ex_folder, ex_clock, ex_runs, world, calls_made, enumerated>>

NotRun == [not_run |-> TRUE]

\* the variables of a specification that is not the one running
ElementIdle == el_in = NotRun /\ el_out = NotRun

FlattenIdle == fl_doc = NotRun /\ fl_path = <<>> /\ fl_first = NotRun /\ fl_second = NotRun

BatchIdle ==
    /\ directory = <<>> /\ pc = "off" /\ pdf_files = <<>> /\ idx = 0
    /\ dataset = <<>> /\ log = <<>> /\ submitted = <<>> /\ outcomes = <<>>
    /\ in_flight = {} /\ output = <<>> /\ saves = 0
    /\ env = NotRun /\ raised = NotRun
    /\ world = NotRun /\ calls_made = 0 /\ enumerated = <<>>

ExtractIdle == ex_dataset = NotRun /\ ex_folder = NotRun /\ ex_clock = 0 /\ ex_runs = <<>>

-----------------------------------------------------------------------------
(* SpecElement: the per-element functions on one element *)

ElementInputs ==
    {[kind |-> "text", document_text |-> t, element |-> e, element_type |-> "block"] :
        t \in DocTexts, e \in TextElements}
    \cup {[kind |-> "text", document_text |-> DocumentText(MaxTextLen),
           element |-> [layout |-> Layout(a, PlainPoly, PlainConfidence)],
           element_type |-> ty] : a \in FewAnchors, ty \in ElementTypes}
    \cup {[kind |-> "cell", document_text |-> t, element |-> c, element_type |-> ty] :
        t \in DocTexts, c \in Cells, ty \in {"body"}}
    \cup {[kind |-> "cell", document_text |-> DocumentText(MaxTextLen),
           element |-> Cell(l, PlainSpan, PlainSpan), element_type |-> "header"] :
        l \in FewLayouts}
    \cup {[kind |-> "form_field", document_text |-> t, element |-> f,
           element_type |-> "form_field"] : t \in DocTexts, f \in FormFields}
    \cup {[kind |-> "table", document_text |-> DocumentText(MaxTextLen), element |-> t,
           element_type |-> "table"] : t \in Tables}

InitElement ==
    /\ el_in \in ElementInputs
    /\ el_out = NotRun
    /\ FlattenIdle
    /\ BatchIdle
    /\ ExtractIdle

ExtractTextElement ==
    /\ el_out = NotRun
    /\ el_in.kind = "text"
    /\ el_out' = _extract_text_element_info(el_in.element, el_in.document_text,
                                            1, el_in.element_type, 0)
    /\ UNCHANGED <<el_in, flattenVars, batchVars, extractVars>>

ExtractCell ==
    /\ el_out = NotRun
    /\ el_in.kind = "cell"
    /\ el_out' = _extract_cell_info(el_in.element, el_in.document_text,
                                    1, 0, 0, 0, el_in.element_type)
    /\ UNCHANGED <<el_in, flattenVars, batchVars, extractVars>>

ExtractFormField ==
    /\ el_out = NotRun
    /\ el_in.kind = "form_field"
    /\ el_out' = _extract_form_field_info(el_in.element, el_in.document_text, 1, 0)
    /\ UNCHANGED <<el_in, flattenVars, batchVars, extractVars>>

ExtractTable ==
    /\ el_out = NotRun
    /\ el_in.kind = "table"
    /\ el_out' = _extract_table_info(el_in.element, el_in.document_text, 1, 0)
    /\ UNCHANGED <<el_in, flattenVars, batchVars, extractVars>>

NextElement == ExtractTextElement \/ ExtractCell \/ ExtractFormField \/ ExtractTable

SpecElement == InitElement /\ [][NextElement]_vars

-----------------------------------------------------------------------------
(* Spec: a batch run of a freshly constructed parser *)

Init ==
    /\ directory \in SeqsUpTo(DirectoryEntries, MaxFiles)
    /\ IsDirectory(directory)
    /\ pc = "constructed"
    /\ pdf_files = <<>>
    /\ idx = 0
    /\ dataset = <<>>
    /\ log = <<>>
    /\ submitted = <<>>
    /\ outcomes = <<>>
    /\ in_flight = {}
    /\ output = [name \in OutputNames |-> NoFile]
    /\ saves = 0
    /\ env = NotRun
    /\ raised = NotRun
    /\ world = WholeWorld
    /\ calls_made = 0
    /\ enumerated = <<>>
    /\ ElementIdle
    /\ FlattenIdle
    /\ ExtractIdle

\* process_all_pdfs is called: the directory is listed, the loop begins
CallProcessAllPdfs ==
    /\ pdf_files' = glob_pdf(directory)
    /\ enumerated' = enumerated \o pdf_files'
    /\ calls_made' = calls_made + 1
    /\ idx' = 1
    /\ pc' = "loop"
    /\ UNCHANGED <<directory, dataset, log, submitted, outcomes, in_flight, output, saves,
                   mainVars, elementVars, flattenVars, extractVars>>

ProcessAllPdfs ==
    /\ pc = "constructed"
    /\ CallProcessAllPdfs

\* the end of one pass of the loop: process_pdf came to outcome in its try
\* block, returns, and the caller appends what it got; an exception that
\* process_pdf lets through leaves process_all_pdfs
EndOfPass(pdf_path, outcome, warnings) ==
    LET layout_info == process_pdf_return(pdf_path, outcome)
    IN  /\ log' = log \o warnings \o process_pdf_log(pdf_path, outcome)
        /\ IF IsExc(layout_info)
           THEN /\ pc' = "raised"
                /\ UNCHANGED <<dataset, outcomes, idx>>
           ELSE /\ dataset' = dataset_append(dataset, layout_info)
                /\ outcomes' = Append(outcomes, outcome)
                /\ idx' = idx + 1
                /\ pc' = "loop"

\* a pass of the loop whose process_pdf fails before the remote call
ProcessPdfFailsLocally ==
    /\ pc = "loop"
    /\ idx <= Len(pdf_files)
    /\ LET pdf_path == pdf_files[idx]
           entry == EntryAt(directory, pdf_path)
       IN  /\ IsExc(local_failure(entry, pdf_path))
           /\ EndOfPass(pdf_path, local_failure(entry, pdf_path), <<>>)
    /\ UNCHANGED <<directory, pdf_files, submitted, in_flight, output, saves,
                   mainVars, callVars, elementVars, flattenVars, extractVars>>

\* a pass of the loop up to client.process_document: the request is sent
ProcessPdfSubmits ==
    /\ pc = "loop"
    /\ idx <= Len(pdf_files)
    /\ LET pdf_path == pdf_files[idx]
           entry == EntryAt(directory, pdf_path)
       IN  /\ ~IsExc(local_failure(entry, pdf_path))
           /\ log' = log \o size_warning(entry)
           /\ submitted' = Append(submitted, pdf_path)
           /\ in_flight' = in_flight \cup {pdf_path}
    /\ pc' = "waiting"
    /\ UNCHANGED <<directory, pdf_files, idx, dataset, outcomes, output, saves,
                   mainVars, callVars, elementVars, flattenVars, extractVars>>

\* client.process_document raises or returns, and process_pdf runs to its end
ProcessPdfResumes ==
    /\ pc = "waiting"
    /\ \E response \in world.responses : \E now \in world.instants :
          LET pdf_path == pdf_files[idx]
          IN  /\ in_flight' = in_flight \ {pdf_path}
              /\ EndOfPass(pdf_path, after_remote_call(response, pdf_path, now),
                           IF IsExc(response) THEN <<>>
                           ELSE zero_pages_warning(response, pdf_path))
    /\ UNCHANGED <<directory, pdf_files, submitted, output, saves,
                   mainVars, callVars, elementVars, flattenVars, extractVars>>

\* the loop is over: return self.dataset
ProcessAllPdfsReturns ==
    /\ pc = "loop"
    /\ idx > Len(pdf_files)
    /\ pc' = "returned"
    /\ UNCHANGED <<directory, pdf_files, idx, dataset, log, submitted, outcomes,
                   in_flight, output, saves, mainVars, callVars, elementVars, flattenVars, extractVars>>

\* save_dataset is called: the JSON file, the summary and the CSV files are
\* written, and the export leaves its mark on the records of self.dataset.
\* main calls it once; a caller that holds the parser may call it again.
SaveDataset ==
    /\ pc \in {"returned", "saved"}
    /\ saves < (IF env = NotRun THEN MaxSaves ELSE 1)
    /\ output' = save_dataset(dataset, output)
    /\ dataset' = after_export(dataset)
    /\ saves' = saves + 1
    /\ pc' = "saved"
    /\ UNCHANGED <<directory, pdf_files, idx, log, submitted, outcomes, in_flight,
                   mainVars, callVars, elementVars, flattenVars, extractVars>>

Next ==
    \/ ProcessAllPdfs
    \/ ProcessPdfFailsLocally
    \/ ProcessPdfSubmits
    \/ ProcessPdfResumes
    \/ ProcessAllPdfsReturns
    \/ SaveDataset

Spec == Init /\ [][Next]_vars

-----------------------------------------------------------------------------
(* SpecCalls: process_all_pdfs called again and again on one parser, with
   save_dataset between or after the calls *)

InitCalls ==
    /\ directory \in SeqsUpTo(DirectoryEntries, MaxFiles)
    /\ IsDirectory(directory)
    /\ \A i \in 1..Len(directory) : directory[i].size <= 1
    /\ world = SmallWorld
    /\ pc = "constructed"
    /\ pdf_files = <<>>
    /\ idx = 0
    /\ dataset = <<>>
    /\ log = <<>>
    /\ submitted = <<>>
    /\ outcomes = <<>>
    /\ in_flight = {}
    /\ output = [name \in OutputNames |-> NoFile]
    /\ saves = 0
    /\ env = NotRun
    /\ raised = NotRun
    /\ calls_made = 0
    /\ enumerated = <<>>
    /\ ElementIdle
    /\ FlattenIdle
    /\ ExtractIdle

\* a file arrives in the directory between two calls
FileArrives ==
    /\ pc \in {"returned", "saved"}
    /\ calls_made < MaxCalls
    /\ Len(directory) < MaxFiles
    /\ \E entry \in DirectoryEntries :
          /\ entry.size = 1 /\ entry.exists /\ entry.suffix = ".pdf"
          /\ IsDirectory(Append(directory, entry))
          /\ directory' = Append(directory, entry)
    /\ UNCHANGED <<pc, pdf_files, idx, dataset, log, submitted, outcomes, in_flight, output,
                   saves, mainVars, callVars, elementVars, flattenVars, extractVars>>

\* process_all_pdfs is called on the parser once more
ProcessAllPdfsAgain ==
    /\ pc \in {"returned", "saved"}
    /\ calls_made < MaxCalls
    /\ CallProcessAllPdfs

NextCalls ==
    \/ ProcessAllPdfs
    \/ ProcessPdfFailsLocally
    \/ ProcessPdfSubmits
    \/ ProcessPdfResumes
    \/ ProcessAllPdfsReturns
    \/ SaveDataset
    \/ FileArrives
    \/ ProcessAllPdfsAgain

SpecCalls == InitCalls /\ [][NextCalls]_vars

-----------------------------------------------------------------------------
(* SpecMain: main, from the import of the configuration to its end *)

InitMain ==
    /\ directory \in SeqsUpTo(DirectoryEntries, MaxFiles)
    /\ IsDirectory(directory)
    /\ env \in Environments
    /\ pc = "main"
    /\ pdf_files = <<>>
    /\ idx = 0
    /\ dataset = <<>>
    /\ log = <<>>
    /\ submitted = <<>>
    /\ outcomes = <<>>
    /\ in_flight = {}
    /\ output = [name \in OutputNames |-> NoFile]
    /\ saves = 0
    /\ raised = NotRun
    /\ world = WholeWorld
    /\ calls_made = 0
    /\ enumerated = <<>>
    /\ ElementIdle
    /\ FlattenIdle
    /\ ExtractIdle

\* the imports at the head of main
MainImportsConfig ==
    /\ pc = "main"
    /\ LET e == import_config(env)
       IN  /\ log' = log \o import_log(e)
           /\ IF IsExc(e)
              THEN pc' = "main_raised" /\ raised' = e
              ELSE pc' = "configured" /\ UNCHANGED raised
    /\ UNCHANGED <<directory, pdf_files, idx, dataset, submitted, outcomes, in_flight,
                   output, saves, env, world, callVars, elementVars,
                   flattenVars, extractVars>>

\* parser = DocumentAILayoutParser(...): __init__ runs to its end or raises,
\* and what it raises leaves main through its except clause
MainConstructsParser ==
    /\ pc = "configured"
    /\ LET e == init_failure(env)
       IN  /\ log' = log \o init_log(env, e)
           /\ IF IsExc(e)
              THEN pc' = "main_raised" /\ raised' = e
              ELSE pc' = "constructed" /\ UNCHANGED raised
    /\ UNCHANGED <<directory, pdf_files, idx, dataset, submitted, outcomes, in_flight,
                   output, saves, env, world, callVars, elementVars,
                   flattenVars, extractVars>>

\* main comes to its end after save_dataset
MainReturns ==
    /\ pc = "saved"
    /\ env # NotRun
    /\ pc' = "done"
    /\ UNCHANGED <<directory, pdf_files, idx, dataset, log, submitted, outcomes, in_flight,
                   output, saves, mainVars, callVars, elementVars, flattenVars, extractVars>>

NextMain ==
    \/ MainImportsConfig
    \/ MainConstructsParser
    \/ ProcessAllPdfs
    \/ ProcessPdfFailsLocally
    \/ ProcessPdfSubmits
    \/ ProcessPdfResumes
    \/ ProcessAllPdfsReturns
    \/ SaveDataset
    \/ MainReturns

SpecMain == InitMain /\ [][NextMain]_vars

-----------------------------------------------------------------------------
(* SpecFlatten: _extract_layout_info on one response, called twice *)

InitFlatten ==
    /\ IsDocument(fl_doc)
    /\ fl_path \in Paths
    /\ fl_first = NotRun
    /\ fl_second = NotRun
    /\ ElementIdle
    /\ BatchIdle
    /\ ExtractIdle

FlattenFirst ==
    /\ fl_first = NotRun
    /\ \E now \in Instants : fl_first' = _extract_layout_info(fl_doc, fl_path, now)
    /\ UNCHANGED <<fl_doc, fl_path, fl_second, elementVars, batchVars, extractVars>>

FlattenAgain ==
    /\ fl_first # NotRun
    /\ fl_second = NotRun
    /\ \E now \in Instants : fl_second' = _extract_layout_info(fl_doc, fl_path, now)
    /\ UNCHANGED <<fl_doc, fl_path, fl_first, elementVars, batchVars, extractVars>>

NextFlatten == FlattenFirst \/ FlattenAgain

SpecFlatten == InitFlatten /\ [][NextFlatten]_vars

-----------------------------------------------------------------------------
(* SpecExtract: runs of the extractor over one dataset file *)

InitExtract ==
    /\ \/ ex_dataset = NoFile
       \/ \E shape \in DatasetShapes : \E paragraphs \in SeqsUpTo(ParagraphRecords, MaxParas) :
             /\ ParagraphsIn(shape, Len(shape)) = Len(paragraphs)
             /\ ex_dataset = json_dump(DatasetOf(shape, paragraphs))
    /\ ex_folder = NoFolder
    /\ ex_clock = 0
    /\ ex_runs = <<>>
    /\ ElementIdle
    /\ FlattenIdle
    /\ BatchIdle

\* one run of main() of the extractor, some time after the run before it
RunExtractor ==
    /\ Len(ex_runs) < MaxRuns
    /\ IF ex_dataset = NoFile
       THEN /\ ex_runs' = Append(ex_runs, [returned |-> "Dataset file not found"])
            /\ \E now \in {ex_clock, ex_clock + 1} : ex_clock' = now
            /\ UNCHANGED ex_folder
       ELSE LET paragraphs == selection(json_load(ex_dataset))
                lines == jsonl(paragraphs)
            IN  IF paragraphs = <<>>
                THEN /\ ex_runs' = Append(ex_runs,
                            [returned |-> "No paragraphs found matching criteria"])
                     /\ \E now \in {ex_clock, ex_clock + 1} : ex_clock' = now
                     /\ UNCHANGED ex_folder
                ELSE \E now \in {ex_clock, ex_clock + 1} :
                        LET name == jsonl_filename(now)
                        IN  /\ ex_clock' = now
                            /\ ex_folder' = open_w(ex_folder, name, lines)
                            /\ ex_runs' = Append(ex_runs,
                                   [returned |-> "LLM dataset ready", name |-> name,
                                    content |-> content_of(ex_folder', name)])
    /\ UNCHANGED <<ex_dataset, elementVars, flattenVars, batchVars>>

NextExtract == RunExtractor

SpecExtract == InitExtract /\ [][NextExtract]_vars

-----------------------------------------------------------------------------
(* Properties of the per-element functions (SpecElement) *)

\* el_out is a record returned for a text element
TextRecordReturned == el_in.kind = "text" /\ el_out # NotRun /\ ~IsExc(el_out)

HasTextFields(r) == "text" \in DOMAIN r /\ "text_length" \in DOMAIN r

TextIsTrimmed(r) == r.text = Strip(r.text) /\ r.text_length = Len(r.text)

\* C5 as stated: every text-element record produced by flattening has a
\* text equal to its own strip() and a text_length equal to len(text).
C5_EveryTextRecordTrimmed ==
    TextRecordReturned => HasTextFields(el_out) /\ TextIsTrimmed(el_out)

\* C5, amended: every text-element record built from an element that has a
\* layout has text == text.strip() and text_length == len(text); the record
\* of an element without layout is {} and has neither field.
C5_TrimmedUnlessEmpty ==
    TextRecordReturned =>
        IF Truthy(el_in.element.layout)
        THEN HasTextFields(el_out) /\ TextIsTrimmed(el_out)
        ELSE el_out = EmptyDict

\* a text element whose concatenated slices begin or end with whitespace
\* was flattened to a non-empty text
C5_Witness ==
    /\ TextRecordReturned
    /\ Truthy(el_in.element.layout)
    /\ Truthy(el_in.element.layout.text_anchor)
    /\ el_out.text_length > 0
    /\ el_out.text # concat_segments(el_in.element.layout.text_anchor.text_segments,
                                     el_in.document_text)

CellRecordReturned == el_in.kind = "cell" /\ el_out # NotRun

\* C6: every cell record has row_span >= 1 and col_span >= 1, and a span the
\* source cell omits is recorded as 1.
C6_SpansAtLeastOne ==
    CellRecordReturned =>
        /\ el_out.row_span >= 1
        /\ el_out.col_span >= 1
        /\ (~el_in.element.row_span_given => el_out.row_span = 1)
        /\ (~el_in.element.col_span_given => el_out.col_span = 1)

\* What a segment denotes: document_text[start, end) with start 0 and end
\* the full length only where the offset is unspecified.
DenotedSlice(segment, document_text) ==
    Slice(document_text,
          IF segment.start_given THEN segment.start_index ELSE 0,
          IF segment.end_given THEN segment.end_index ELSE Len(document_text))

RECURSIVE DenotedConcat(_, _)
DenotedConcat(segments, document_text) ==
    IF segments = <<>> THEN <<>>
    ELSE DenotedSlice(Head(segments), document_text)
         \o DenotedConcat(Tail(segments), document_text)

\* the trimmed concatenation of the segments' slices; "" without an anchor
DenotedText(layout, document_text) ==
    IF Truthy(layout) /\ Truthy(layout.text_anchor)
    THEN Strip(DenotedConcat(layout.text_anchor.text_segments, document_text))
    ELSE <<>>

\* C8: the text of every text element, cell, form-field name and form-field
\* value is the trimmed concatenation, in segment order, of the slices its
\* segments denote; a specified offset, 0 included, is taken as given.
C8_TextIsDenotedSlices ==
    /\ (TextRecordReturned /\ Truthy(el_in.element.layout) =>
            el_out.text = DenotedText(el_in.element.layout, el_in.document_text))
    /\ (CellRecordReturned =>
            el_out.text = DenotedText(el_in.element.layout, el_in.document_text))
    /\ (el_in.kind = "form_field" /\ el_out # NotRun =>
            /\ el_out.field_name = DenotedText(el_in.element.field_name, el_in.document_text)
            /\ el_out.field_value = DenotedText(el_in.element.field_value, el_in.document_text))

\* C9: a text-element record has confidence null when the source gave no
\* score, and confidence 0 only when the source gave the score 0.
C9_AbsentConfidenceIsNull ==
    TextRecordReturned /\ Truthy(el_in.element.layout) =>
        /\ (~el_in.element.layout.confidence_given => el_out.confidence = None)
        /\ (el_out.confidence = "0.0" => el_in.element.layout.confidence_given)

TableRecordReturned == el_in.kind = "table" /\ el_out # NotRun

\* the number of cells of rows
RECURSIVE CellsIn(_)
CellsIn(rows) == IF rows = <<>> THEN 0 ELSE Len(Head(rows).cells) + CellsIn(Tail(rows))

\* the rows of the table a cell record says it came from
RowsOfType(table, cell_type) ==
    IF cell_type = "header" THEN table.header_rows ELSE table.body_rows

\* the cell record is the record of the source cell at its own cell_type,
\* row_index and cell_index
IsRecordOfItsCell(table, rec) ==
    /\ rec.cell_type \in {"header", "body"}
    /\ rec.row_index \in 0..(Len(RowsOfType(table, rec.cell_type)) - 1)
    /\ rec.cell_index \in 0..(Len(RowsOfType(table, rec.cell_type)[rec.row_index + 1].cells) - 1)
    /\ LET cell == RowsOfType(table, rec.cell_type)[rec.row_index + 1].cells[rec.cell_index + 1]
       IN  rec.bounding_box = vertex_pairs(cell.layout.bounding_poly.vertices)

\* header before body, then by row, then by column
ComesBefore(a, b) ==
    \/ a.cell_type = "header" /\ b.cell_type = "body"
    \/ a.cell_type = b.cell_type /\ a.row_index < b.row_index
    \/ a.cell_type = b.cell_type /\ a.row_index = b.row_index /\ a.cell_index < b.cell_index

\* the table of scenario 4: one header row of 2 cells, two body rows of 2 cells
ScenarioTable == [header_rows |-> GridRows(0, <<2>>), body_rows |-> GridRows(1, <<2, 2>>)]

\* C12: the cells list of a table record holds one record per cell of every
\* header row and body row; header cells come before body cells, rows in row
\* order, the cells of a row in column order with cell_index 0, 1, 2, ...;
\* cell_type is "header" or "body" after the row the cell came from, and
\* row_index counts from 0 for the header rows and again from 0 for the body
\* rows: 1 header row of 2 cells and 2 body rows of 2 cells give 6 records
\* with row_index 0,0,0,0,1,1.
C12_TableOrder ==
    TableRecordReturned =>
        LET table == el_in.element
            cells == el_out.cells
        IN  /\ Len(cells) = CellsIn(table.header_rows) + CellsIn(table.body_rows)
            /\ \A k \in 1..Len(cells) : IsRecordOfItsCell(table, cells[k])
            /\ \A k \in 1..(Len(cells) - 1) : ComesBefore(cells[k], cells[k + 1])
            /\ (table = ScenarioTable =>
                    /\ Len(cells) = 6
                    /\ [k \in 1..6 |-> cells[k].row_index] = <<0, 0, 0, 0, 1, 1>>
                    /\ [k \in 1..6 |-> cells[k].cell_index] = <<0, 1, 0, 1, 0, 1>>
                    /\ [k \in 1..2 |-> cells[k].cell_type] = <<"header", "header">>)

\* the table of scenario 4 was flattened
C12_Witness ==
    /\ TableRecordReturned
    /\ el_in.element = ScenarioTable
    /\ Len(el_out.cells) = 6

-----------------------------------------------------------------------------
(* Properties of _extract_layout_info (SpecFlatten) *)

IsSuccess(out) == out # NotRun /\ ~IsExc(out) /\ out.status = "success"

FlattenOutputs == {fl_first, fl_second}

ListKinds == {"blocks", "paragraphs", "lines", "tokens", "tables", "form_fields"}

TextKinds == {"blocks", "paragraphs", "lines", "tokens"}

\* the page summary's count for a kind
CountOf(page_summary, kind) ==
    CASE kind = "blocks" -> page_summary.blocks_count
      [] kind = "paragraphs" -> page_summary.paragraphs_count
      [] kind = "lines" -> page_summary.lines_count
      [] kind = "tokens" -> page_summary.tokens_count
      [] kind = "tables" -> page_summary.tables_count
      [] kind = "form_fields" -> page_summary.form_fields_count

RECURSIVE SumCounts(_, _)
SumCounts(page_summaries, kind) ==
    IF page_summaries = <<>> THEN 0
    ELSE CountOf(Head(page_summaries), kind) + SumCounts(Tail(page_summaries), kind)

\* the response's elements of a kind, page after page
SourceElements(document, kind) ==
    Flatten([i \in 1..Len(document.pages) |-> document.pages[i][kind]])

\* C4: in every document record with status "success", each list (blocks,
\* paragraphs, lines, tokens, tables, form_fields) is as long as the sum of
\* the page summaries' counts for it and holds one record per element of the
\* response; an element with no layout and a form field with empty name and
\* value are records like any other.
C4_NoRecordDropped ==
    \A out \in FlattenOutputs : IsSuccess(out) =>
        \A kind \in ListKinds :
            /\ Len(out[kind]) = SumCounts(out.pages, kind)
            /\ Len(out[kind]) = Len(SourceElements(fl_doc, kind))

\* a successful record holding the {} of an element without layout and the
\* record of a form field with empty name and value
C4_Witness ==
    /\ IsSuccess(fl_first)
    /\ \E k \in 1..Len(fl_first.blocks) : fl_first.blocks[k] = EmptyDict
    /\ \E k \in 1..Len(fl_first.form_fields) :
          fl_first.form_fields[k].field_name = <<>> /\ fl_first.form_fields[k].field_value = <<>>
    /\ Len(fl_first.pages) = 2

\* C7 as stated: flattening the same response and path twice yields two
\* document records equal field for field.
C7_Identical ==
    fl_first # NotRun /\ fl_second # NotRun => fl_first = fl_second

\* a document record without its processing_timestamp
WithoutTimestamp(r) == [k \in DOMAIN r \ {"processing_timestamp"} |-> r[k]]

\* C7, amended: flattening the same response and path twice yields document
\* records equal field for field except for processing_timestamp (the wall
\* clock of each call); all flat child records are equal and in the same
\* order, and a call that raises does so both times.
C7_IdenticalButTimestamp ==
    fl_first # NotRun /\ fl_second # NotRun =>
        /\ IsExc(fl_first) = IsExc(fl_second)
        /\ IsExc(fl_first) => fl_first = fl_second
        /\ ~IsExc(fl_first) => WithoutTimestamp(fl_first) = WithoutTimestamp(fl_second)

\* both calls returned a record with elements on two pages, at two instants
C7_Witness ==
    /\ IsSuccess(fl_first) /\ IsSuccess(fl_second)
    /\ fl_first.processing_timestamp # fl_second.processing_timestamp
    /\ Len(fl_first.blocks) >= 1 /\ Len(fl_first.tables) >= 1

\* some text element of the response has a layout without bounding_poly
HasNoPoly(document) ==
    \E kind \in TextKinds : \E k \in 1..Len(SourceElements(document, kind)) :
        LET e == SourceElements(document, kind)[k]
        IN  Truthy(e.layout) /\ e.layout.bounding_poly = Absent

\* C10: a text element without layout flattens to {} without raising, the
\* {} is appended to its list in the element's place, and the document
\* record keeps status "success".
C10_NoLayoutGivesEmptyRecord ==
    \A out \in FlattenOutputs : out # NotRun =>
        /\ (~HasNoPoly(fl_doc) => IsSuccess(out))
        /\ IsSuccess(out) =>
              \A kind \in TextKinds :
                  /\ Len(out[kind]) = Len(SourceElements(fl_doc, kind))
                  /\ \A k \in 1..Len(out[kind]) :
                        ~Truthy(SourceElements(fl_doc, kind)[k].layout)
                            <=> out[kind][k] = EmptyDict

\* a successful record whose second token is the {} of an element without layout
C10_Witness ==
    /\ IsSuccess(fl_first)
    /\ Len(fl_first.tokens) = 2
    /\ fl_first.tokens[2] = EmptyDict
    /\ fl_first.tokens[1] # EmptyDict

SourcePositions(document, kind) ==
    Flatten([i \in 1..Len(document.pages) |->
        [j \in 1..Len(document.pages[i][kind]) |-> <<i, j - 1>>]])

\* C21: in a successful document the i-th page summary (0-based) has
\* page_number i + 1 and the summaries are in page order; the list of each
\* text-element kind is the concatenation of the pages' elements in page
\* order, each page's own order kept; every non-empty element record has
\* the 1-based number of its page as page_number and its 0-based ordinal on
\* that page as element_number, starting again at 0 on every page.
C21_PageOrderAndNumbering ==
    \A out \in FlattenOutputs : IsSuccess(out) =>
        /\ Len(out.pages) = Len(fl_doc.pages)
        /\ \A i \in 1..Len(out.pages) :
              /\ out.pages[i].page_number = i
              /\ \A kind \in ListKinds :
                    CountOf(out.pages[i], kind) = Len(fl_doc.pages[i][kind])
        /\ \A kind \in TextKinds :
              LET at == SourcePositions(fl_doc, kind)
              IN  /\ Len(out[kind]) = Len(at)
                  /\ \A k \in 1..Len(at) :
                        LET element == fl_doc.pages[at[k][1]][kind][at[k][2] + 1]
                        IN  IF Truthy(element.layout)
                            THEN /\ out[kind][k] # EmptyDict
                                 /\ out[kind][k].page_number = at[k][1]
                                 /\ out[kind][k].element_number = at[k][2]
                            ELSE out[kind][k] = EmptyDict

\* a record of two pages whose second page holds an element without layout
\* and, after it, a token
C21_Witness ==
    /\ IsSuccess(fl_first)
    /\ Len(fl_first.pages) = 2
    /\ Len(fl_first.tokens) = 2
    /\ fl_first.tokens[1] = EmptyDict
    /\ fl_first.tokens[2] # EmptyDict
    /\ fl_first.tokens[2].page_number = 2
    /\ fl_first.tokens[2].element_number = 1

-----------------------------------------------------------------------------
(* Properties of the batch run (Spec) *)

\* the paths of the *.pdf entries, in the order the directory lists them
ListedPdfs ==
    LET found == SelectSeq(directory, LAMBDA entry : entry.suffix = ".pdf")
    IN  [i \in 1..Len(found) |-> <<PdfDirectory, found[i].name, found[i].suffix>>]

\* the file at position i of the listing cannot be read or is empty
UnreadableOrEmpty(i) ==
    LET found == SelectSeq(directory, LAMBDA entry : entry.suffix = ".pdf")
    IN  ~found[i].exists \/ found[i].size = 0

\* C1: process_all_pdfs of a fresh parser never raises, whatever fails per
\* file; it passes over every *.pdf file in listing order, and when it
\* returns the corpus holds exactly one record per file, in that order, with
\* status "failed" for a file whose processing failed and "success" for
\* every other file.
C1_PerFileIsolation ==
    /\ pc # "raised"
    /\ pc \in {"loop", "waiting", "returned"} =>
          /\ pdf_files = ListedPdfs
          /\ Len(dataset) = idx - 1
          /\ Len(outcomes) = Len(dataset)
          /\ \A i \in 1..Len(dataset) :
                /\ dataset[i].file_path = ListedPdfs[i]
                /\ dataset[i].status = IF IsExc(outcomes[i]) THEN "failed" ELSE "success"
                /\ (UnreadableOrEmpty(i) => dataset[i].status = "failed")
    /\ pc = "returned" => Len(dataset) = Len(ListedPdfs)

\* the run returned with a record for a file whose flattening raised and,
\* after it, a record for a file that was processed
C1_Witness ==
    /\ pc = "returned"
    /\ Len(dataset) = 2
    /\ IsExc(outcomes[1]) /\ outcomes[1].exc_type = "AttributeError"
    /\ dataset[1].status = "failed"
    /\ dataset[2].status = "success"

\* C2: the record of a failed file holds the file path, the error message
\* and the status "failed" and nothing else: no document_info and no child
\* list, also when the failure came part-way through flattening.
C2_FailedRecordShape ==
    \A i \in 1..Len(dataset) :
        IsExc(outcomes[i]) \/ dataset[i].status = "failed" =>
            /\ DOMAIN dataset[i] = {"file_path", "error", "status"}
            /\ dataset[i].status = "failed"
            /\ dataset[i].file_path = pdf_files[i]
            /\ dataset[i].error = outcomes[i].message

\* the corpus holds the record of a file whose response had a block that
\* flattens before the paragraph that raises
C2_Witness ==
    \E i \in 1..Len(dataset) :
        /\ IsExc(outcomes[i])
        /\ outcomes[i].exc_type = "AttributeError"
        /\ dataset[i].status = "failed"
        /\ submitted # <<>>

\* the record names the category of the error, in a field of its own or in
\* its error message
CapturesCategory(record, exc_type) ==
    \/ \E k \in DOMAIN record \ {"file_path", "error", "status"} : record[k] = exc_type
    \/ \E j \in 1..Len(record.error) : record.error[j] = exc_type

\* C3 as stated: the failure record that process_pdf returns captures the
\* error message and the error category.
C3_CategoryInRecord ==
    \A i \in 1..Len(dataset) :
        IsExc(outcomes[i]) =>
            /\ dataset[i].error = outcomes[i].message
            /\ CapturesCategory(dataset[i], outcomes[i].exc_type)

\* the log holds the two error lines of the failure of pdf_path with e
LoggedWithType(pdf_path, e) ==
    \E j \in 1..(Len(log) - 1) :
        /\ log[j] = LogLine("ERROR", <<"Error processing ">> \o pdf_path \o <<": ">> \o e.message)
        /\ log[j + 1] = LogLine("ERROR", <<"Error type: ", e.exc_type>>)

\* C3, amended: when process_pdf fails, the failure record it returns
\* captures the error message (str(e)); the error category (the type of the
\* exception) is written to the log and is not in the record.
C3_MessageInRecordTypeInLog ==
    \A i \in 1..Len(dataset) :
        IsExc(outcomes[i]) =>
            /\ dataset[i].error = outcomes[i].message
            /\ ~CapturesCategory(dataset[i], outcomes[i].exc_type)
            /\ LoggedWithType(dataset[i].file_path, outcomes[i])

\* the corpus holds the record of a file the remote service rejected
C3_Witness ==
    \E i \in 1..Len(dataset) :
        /\ IsExc(outcomes[i])
        /\ outcomes[i].exc_type = "PermissionDenied"
        /\ dataset[i].status = "failed"

\* the *.pdf entries of the directory, in listing order
ListedEntries == SelectSeq(directory, LAMBDA entry : entry.suffix = ".pdf")

\* the paths sent so far, as a set
Submitted == {submitted[k] : k \in 1..Len(submitted)}

\* the log holds a warning with that text
Warned(text) == \E j \in 1..Len(log) : log[j] = [level |-> "WARNING", text |-> text]

\* C19: soft anomalies do not fail a file: a PDF larger than 20 MiB is still
\* submitted to the remote service (flagged by a warning, not rejected), and
\* a response with zero pages for a non-empty file gives a document record
\* with status "success", total_pages 0 and every child list empty, not a
\* failure record.
C19_SoftAnomaliesDoNotFail ==
    \A i \in 1..Len(dataset) :
        /\ (ListedEntries[i].exists /\ ListedEntries[i].size > 20 * 1024 * 1024 =>
                /\ dataset[i].file_path \in Submitted
                /\ Warned(<<"File size exceeds 20MB limit for synchronous processing">>)
                /\ (IsExc(outcomes[i]) =>
                        outcomes[i].exc_type \notin {"ValueError", "FileNotFoundError"}))
        /\ (Warned(<<"Document AI returned 0 pages for ">> \o dataset[i].file_path) =>
                /\ dataset[i].status = "success"
                /\ dataset[i].document_info.total_pages = 0
                /\ dataset[i].pages = <<>>
                /\ \A kind \in ListKinds : dataset[i][kind] = <<>>)

\* the corpus holds the success record of a file above 20 MiB whose response
\* had no page
C19_Witness ==
    /\ Len(dataset) >= 1
    /\ ListedEntries[1].size > 20 * 1024 * 1024
    /\ Warned(<<"File size exceeds 20MB limit for synchronous processing">>)
    /\ Warned(<<"Document AI returned 0 pages for ">> \o dataset[1].file_path)
    /\ dataset[1].status = "success"
    /\ dataset[1].document_info.total_pages = 0

\* the paths of the first n listed files that exist and are not empty
SubmittedOf(n) ==
    LET sendable == SelectSeq(SubSeq(ListedEntries, 1, n),
                              LAMBDA entry : entry.exists /\ entry.size > 0)
    IN  [k \in 1..Len(sendable) |-> <<"PDFs", sendable[k].name, sendable[k].suffix>>]

-----------------------------------------------------------------------------
(* Properties of save_dataset (Spec) *)

\* C13: save_dataset leaves the in-memory corpus unchanged: over any call of
\* save_dataset (JSON, summary and CSV export) every document record and
\* every child record of self.dataset keeps exactly its fields and values.
C13_SaveLeavesCorpusUnchanged ==
    [][saves' = saves + 1 => dataset' = dataset]_vars

\* the try blocks that came to a document record, in corpus order
Flattened == SelectSeq(outcomes, LAMBDA o : ~IsExc(o))

\* the number of child records of a kind over the flattened documents
ChildrenOf(kind) == sum([i \in 1..Len(Flattened) |-> Len(Flattened[i][kind])])

\* the file of that name holds one row per expected row, each under the
\* file name of a flattened document; no file when no row is expected
HoldsRows(name, expected) ==
    IF output[name] = NoFile THEN expected = 0
    ELSE /\ Len(output[name].rows) = expected
         /\ \A k \in 1..Len(output[name].rows) :
               \E i \in 1..Len(Flattened) :
                   output[name].rows[k].file_name = basename(Flattened[i].file_path)

Summary == json_load(output["dataset_summary.json"])

\* C14: a document record whose status is not "success" gives no row to
\* documents_summary.csv, blocks.csv and tables.csv and adds nothing to
\* total_pages, total_blocks, total_paragraphs, total_lines, total_tokens,
\* total_tables and total_form_fields; it is counted in total_documents.
C14_FailedDocumentsLeftOut ==
    saves >= 1 =>
        /\ Summary.total_documents = Len(dataset)
        /\ Summary.total_documents = Len(outcomes)
        /\ Summary.total_pages = sum([i \in 1..Len(Flattened) |-> Len(Flattened[i].pages)])
        /\ Summary.total_blocks = ChildrenOf("blocks")
        /\ Summary.total_paragraphs = ChildrenOf("paragraphs")
        /\ Summary.total_lines = ChildrenOf("lines")
        /\ Summary.total_tokens = ChildrenOf("tokens")
        /\ Summary.total_tables = ChildrenOf("tables")
        /\ Summary.total_form_fields = ChildrenOf("form_fields")
        /\ HoldsRows("documents_summary.csv", Len(Flattened))
        /\ HoldsRows("blocks.csv", ChildrenOf("blocks"))
        /\ HoldsRows("tables.csv", ChildrenOf("tables"))

\* a corpus of a failed document and a document with a block and a table
\* was saved
C14_Witness ==
    /\ saves = 1
    /\ Len(dataset) = 2
    /\ dataset[1].status = "failed"
    /\ dataset[2].status = "success"
    /\ output["blocks.csv"] # NoFile /\ Len(output["blocks.csv"].rows) = 1
    /\ output["tables.csv"] # NoFile /\ Len(output["tables.csv"].rows) = 1
    /\ Summary.total_documents = 2

\* C15: the summary never faults on a division by zero: for any corpus, the
\* empty one and one of failed documents only included,
\* _create_summary_statistics completes; average_pages_per_document is 0
\* when successful_documents is 0 and total_pages divided by
\* successful_documents otherwise.
C15_AverageNeverDividesByZero ==
    saves >= 1 =>
        LET average == Summary.average_pages_per_document
            pages == sum([i \in 1..Len(Flattened) |-> Len(Flattened[i].pages)])
        IN  /\ ~IsExc(Summary)
            /\ ~IsExc(average)
            /\ Summary.successful_documents = Len(Flattened)
            /\ IF Len(Flattened) = 0
               THEN average = Number(0)
               ELSE /\ average.den # 0
                    /\ average.num * Len(Flattened) = pages * average.den

\* a corpus of two failed documents was saved
C15_Witness ==
    /\ saves >= 1
    /\ Len(dataset) = 2
    /\ Summary.successful_documents = 0
    /\ Summary.failed_documents = 2
    /\ Summary.average_pages_per_document = Number(0)

-----------------------------------------------------------------------------
(* Properties of the extractor (SpecExtract) *)

\* the whitespace-trimmed text of a paragraph record; "" when it has none
TrimmedText(paragraph) ==
    IF "text" \in DOMAIN paragraph THEN Strip(paragraph.text) ELSE <<>>

\* the trimmed texts of 50 characters or more of the paragraphs of the
\* successful documents, in corpus order and then paragraph order
ExpectedTexts(docs) ==
    Flatten([i \in 1..Len(docs) |->
        IF docs[i].status = "success"
        THEN SelectSeq([j \in 1..Len(docs[i].paragraphs) |-> TrimmedText(docs[i].paragraphs[j])],
                       LAMBDA t : Len(t) >= 50)
        ELSE <<>>])

\* one line {"text":"t"} per text
ExpectedLines(texts) ==
    Flatten([i \in 1..Len(texts) |-> <<"{\"text\":\"">> \o texts[i] \o <<"\"}", "\n">>])

\* the run wrote an output file
Wrote(run) == "content" \in DOMAIN run

RunsAgree ==
    \A k \in 1..Len(ex_runs) :
        /\ ex_runs[k].returned = ex_runs[1].returned
        /\ Wrote(ex_runs[k]) =>
              /\ ex_runs[k].content = ex_runs[1].content
              /\ content_of(ex_folder, ex_runs[k].name) = ex_runs[1].content

\* C17: running the extractor twice on the same unchanged dataset file gives
\* output files of identical content (the same records in the same order);
\* only the file name, which is derived from the clock, may differ, and a
\* run does not modify the dataset file.
C17_RunsIdempotent ==
    [][ex_dataset' = ex_dataset /\ RunsAgree']_vars

\* two runs in different seconds wrote two files
C17_Witness ==
    /\ Len(ex_runs) = 2
    /\ Wrote(ex_runs[1]) /\ Wrote(ex_runs[2])
    /\ ex_runs[1].name # ex_runs[2].name
    /\ Cardinality(ex_folder.files) = 2
    /\ ex_runs[1].content = ex_runs[2].content

\* for each child record of a kind over the flattened documents, in corpus
\* order: the record and the file name of its document
ChildrenWithOwner(kind) ==
    Flatten([i \in 1..Len(Flattened) |->
        [j \in 1..Len(Flattened[i][kind]) |->
            [child |-> Flattened[i][kind][j], owner |-> Flattened[i].file_name]]])

\* a row without its column file_name
WithoutFileName(row) == [k \in DOMAIN row \ {"file_name"} |-> row[k]]

\* the file of that name is there exactly when a row is expected, and then
\* holds, in corpus order, one row per child record under the file name of
\* the child's document
HoldsChildRows(name, kind) ==
    LET expected == ChildrenWithOwner(kind)
    IN  IF expected = <<>> THEN output[name] = NoFile
        ELSE /\ output[name] # NoFile
             /\ Len(output[name].rows) = Len(expected)
             /\ \A k \in 1..Len(expected) :
                   /\ "file_name" \in DOMAIN output[name].rows[k]
                   /\ output[name].rows[k].file_name = expected[k].owner
                   /\ WithoutFileName(output[name].rows[k])
                          = WithoutFileName(expected[k].child)

\* C22: save_dataset writes documents_summary.csv only if there is a
\* successful document, blocks.csv only if a successful document has a block
\* record and tables.csv only if one has a table record; a file that is
\* written has exactly one row per such document, block or table, and every
\* block and table row carries the file_name of its document.
C22_CsvOnlyWhenNonEmpty ==
    saves >= 1 =>
        /\ IF Flattened = <<>> THEN output["documents_summary.csv"] = NoFile
           ELSE /\ output["documents_summary.csv"] # NoFile
                /\ Len(output["documents_summary.csv"].rows) = Len(Flattened)
                /\ \A i \in 1..Len(Flattened) :
                      /\ output["documents_summary.csv"].rows[i].file_path
                             = Flattened[i].file_path
                      /\ output["documents_summary.csv"].rows[i].file_name
                             = Flattened[i].file_name
        /\ HoldsChildRows("blocks.csv", "blocks")
        /\ HoldsChildRows("tables.csv", "tables")

\* two documents with a block each and no table were saved: blocks.csv has a
\* row under each file name and there is no tables.csv
C22_Witness ==
    /\ saves >= 1
    /\ Len(Flattened) = 2
    /\ output["blocks.csv"] # NoFile
    /\ Len(output["blocks.csv"].rows) = 2
    /\ output["blocks.csv"].rows[1].file_name # output["blocks.csv"].rows[2].file_name
    /\ output["tables.csv"] = NoFile

-----------------------------------------------------------------------------
(* Properties of main (SpecMain) *)

\* the configuration cannot be imported, or the configured credential path
\* does not exist, or the construction of the client raises
SetupFails ==
    \/ env.config = "none"
    \/ env.credential = "missing"
    \/ env.client = "raises"

\* before the parser exists: nothing was sent, kept or written
NothingProcessed ==
    /\ pc \in {"main", "configured", "main_raised"}
    /\ (pc = "main_raised" <=> IsExc(raised))
    /\ (pc = "configured" => env.config # "none")
    /\ submitted = <<>>
    /\ in_flight = {}
    /\ dataset = <<>>
    /\ \A name \in OutputNames : output[name] = NoFile

\* C18: setup failures are fatal before any processing: when the
\* configuration cannot be imported, or a configured credential path does
\* not exist, or client construction raises, main ends by raising (the only
\* state it can stop in is the one where it has raised); no PDF is
\* submitted, the corpus gets no record and none of layout_dataset.json,
\* dataset_summary.json and the CSV files is written.
C18_SetupFailureIsFatal ==
    SetupFails =>
        /\ NothingProcessed
        /\ (pc # "main_raised" => ENABLED NextMain)
        /\ (pc = "main_raised" => ~ENABLED NextMain)

\* main raised what the construction of the client raised, with a readable
\* PDF waiting in the directory
C18_Witness ==
    /\ pc = "main_raised"
    /\ IsExc(raised)
    /\ raised.exc_type = "DefaultCredentialsError"
    /\ \E i \in 1..Len(directory) :
          directory[i].suffix = ".pdf" /\ directory[i].exists /\ directory[i].size > 0

\* C23: when the dataset file does not exist, or when no paragraph of a
\* successful document meets the threshold, the extractor says so and
\* returns without raising; it does not create the output folder and writes
\* no output file.
C23_NothingToExtract ==
    LET nothing == IF ex_dataset = NoFile THEN TRUE
                   ELSE ExpectedTexts(json_load(ex_dataset)) = <<>>
    IN  nothing =>
            /\ ex_folder = NoFolder
            /\ \A k \in 1..Len(ex_runs) :
                  /\ ~IsExc(ex_runs[k])
                  /\ ~Wrote(ex_runs[k])
                  /\ ex_runs[k].returned =
                        IF ex_dataset = NoFile THEN "Dataset file not found"
                        ELSE "No paragraphs found matching criteria"

\* two runs over a dataset whose only paragraphs trim to 49 characters and
\* to nothing returned, and there is no output folder
C23_Witness ==
    /\ ex_dataset # NoFile
    /\ json_load(ex_dataset) =
          <<[status |-> "success",
             paragraphs |-> <<[text |-> <<" ">> \o Text(49, "c") \o <<" ">>], EmptyDict>>]>>
    /\ Len(ex_runs) = 2
    /\ ex_runs[2].returned = "No paragraphs found matching criteria"
    /\ ex_folder = NoFolder

-----------------------------------------------------------------------------
(* C24: the corpus only grows, call after call *)

\* the corpus holds one record per path listed so far, in the order listed
OneRecordPerListedPath(corpus, listed) ==
    /\ Len(corpus) = Len(listed)
    /\ \A i \in 1..Len(corpus) : corpus[i].file_path = listed[i]

\* C24: no step of process_all_pdfs removes, replaces or reorders a record
\* of self.dataset (the corpus before the step is a prefix of the corpus
\* after it), and whenever a call of process_all_pdfs has returned the
\* corpus holds, in call order, one record per file the calls so far have
\* enumerated.
C24_CorpusAppendOnly ==
    [][saves' = saves =>
          /\ Len(dataset') >= Len(dataset)
          /\ SubSeq(dataset', 1, Len(dataset)) = dataset
          /\ (pc' = "returned" => OneRecordPerListedPath(dataset', enumerated'))]_vars

\* the same directory was processed twice and each of its files has two records
C24_Witness ==
    /\ calls_made = 2
    /\ pc = "returned"
    /\ Len(pdf_files) >= 1
    /\ enumerated = pdf_files \o pdf_files
    /\ Len(dataset) = 2 * Len(pdf_files)
    /\ \A i \in 1..Len(pdf_files) :
          dataset[i].file_path = dataset[Len(pdf_files) + i].file_path

-----------------------------------------------------------------------------
(* C25: a second save right after the first *)

\* C25: when save_dataset is called a second time with no processing in
\* between, every output file (layout_dataset.json, the summary, the CSV
\* files) has the content the first call gave it.
C25_SecondSaveWritesTheSame ==
    [][saves = 1 /\ saves' = 2 => output' = output]_vars

-----------------------------------------------------------------------------
(* C26: the status and the path of every record *)

\* C26: every record of the corpus, after any calls of process_all_pdfs and
\* save_dataset, has the status "success" or "failed" and the file_path its
\* process_pdf was called with; and in every summary written
\* total_documents = successful_documents + failed_documents.
C26_StatusAndPath ==
    /\ Len(dataset) <= Len(enumerated)
    /\ \A i \in 1..Len(dataset) :
          /\ dataset[i].status \in {"success", "failed"}
          /\ dataset[i].file_path = enumerated[i]
    /\ (saves >= 1 =>
          Summary.total_documents
              = Summary.successful_documents + Summary.failed_documents)

\* two calls left a failed and a successful record, and the corpus was saved
C26_Witness ==
    /\ calls_made = 2
    /\ saves >= 1
    /\ Len(dataset) = 2
    /\ dataset[1].status = "failed"
    /\ dataset[2].status = "success"
    /\ Summary.total_documents = 2
    /\ Summary.successful_documents = 1
    /\ Summary.failed_documents = 1

-----------------------------------------------------------------------------
(* C27: the counts of a table record and of a document *)

\* C27: in a successful document every table record has rows_count equal to
\* the number of body rows of its table, header_rows_count equal to the
\* number of header rows, and as many cell records as the header and body
\* rows have cells; and document_info.total_pages is the length of pages.
C27_TableCountsAndTotalPages ==
    \A out \in FlattenOutputs : IsSuccess(out) =>
        /\ out.document_info.total_pages = Len(out.pages)
        /\ LET at == SourcePositions(fl_doc, "tables")
           IN  /\ Len(out.tables) = Len(at)
               /\ \A k \in 1..Len(at) :
                     LET table == fl_doc.pages[at[k][1]].tables[at[k][2] + 1]
                         rec == out.tables[k]
                     IN  /\ rec.rows_count = Len(table.body_rows)
                         /\ rec.header_rows_count = Len(table.header_rows)
                         /\ Len(rec.cells)
                                = CellsIn(table.header_rows) + CellsIn(table.body_rows)

\* a document of two pages with a table of one header row and one body row
\* and a table of two body rows and no header row was flattened
C27_Witness ==
    /\ IsSuccess(fl_first)
    /\ fl_first.document_info.total_pages = 2
    /\ Len(fl_first.pages) = 2
    /\ Len(fl_first.tables) = 2
    /\ fl_first.tables[1].rows_count = 1
    /\ fl_first.tables[1].header_rows_count = 1
    /\ Len(fl_first.tables[1].cells) = 2
    /\ fl_first.tables[2].rows_count = 2
    /\ fl_first.tables[2].header_rows_count = 0
    /\ Len(fl_first.tables[2].cells) = 3

====
